---- MODULE Spec2Model ----
(***************************************************************************)
(* Training-feedback analytics engine.                                     *)
(*                                                                         *)
(*   src/openai_analysis.py  analyze_comprehensive_training_feedback,      *)
(*                           get_analyzer, OpenAIFeedbackAnalyzer          *)
(*   src/app.py              analyze_trainer_performance_data,             *)
(*                           calculate_kpis, admin_get_feedback            *)
(*   src/simple_admin.py     login_admin, verify_admin_session,            *)
(*                           logout_admin, require_admin                   *)
(*   src/db.py               insert_feedback, create_feedback_form,        *)
(*                           update_feedback_form                          *)
(*                                                                         *)
(* Numbers.  Python computes with floats; the model computes with exact    *)
(* rationals <<numerator, denominator>> in lowest terms (denominator > 0). *)
(* round(x, k) is round-half-to-even on the exact value and yields the     *)
(* integer x * 10^k ("hundredths" for k = 2, "tenths" for k = 1).  For the *)
(* small integer ratings and record counts of the model the float results  *)
(* coincide with the exact ones, except in the comparison of               *)
(* improvement_trend with 0.2 and in the participant counts of the         *)
(* polarization solutions, which are therefore computed on doubles.        *)
(*                                                                         *)
(* A Python dict is a function from its keys; the insertion order of the   *)
(* keys is not modelled.  A feedback record is                             *)
(*   [training_id, has_quantitative, quantitative, has_text]               *)
(* where has_quantitative says whether the key 'quantitative' is present,  *)
(* quantitative maps the metric names the record rates to the stored       *)
(* integers (validate_feedback_data only asks for one rating in 1..5, so   *)
(* a stored value may lie outside 1..5), and has_text says whether the     *)
(* record's 'qualitative' dict holds at least one non-blank answer (the    *)
(* wording of the answers reaches only the text-insight service).          *)
(***************************************************************************)
EXTENDS Integers, Sequences, FiniteSets, TLC

VARIABLES
    training_id,          \* argument of the analysis request
    feedbacks,            \* argument: the feedback records (a sequence)
    api_key,              \* environment: Config.OPENAI_API_KEY is set
    analyzer,             \* module global `analyzer` (openai_analysis.py:294)
    clock,                \* wall clock read by _get_timestamp
    pc,                   \* position of the request in its handler
    quantitative_insights,\* local of analyze_comprehensive_training_feedback
    qualitative_analysis, \* local: result of the first service call
    calls,                \* outcomes of the service calls of this request
    report,               \* what the request returned (or the exception)
    prev,                 \* calls and report of the previous run
    analysis,             \* what analyze_trainer_performance_data returned
    kpis,                 \* what a call of calculate_kpis returned
    constructions,        \* how many OpenAIFeedbackAnalyzer objects were built
    threads,              \* concurrent analysis requests: position and locals
    ACTIVE_SESSIONS,      \* module global of simple_admin.py
    utcnow,               \* datetime.utcnow(), in hours
    admin_log,            \* the admin calls made so far, with what they returned
    db_manager,           \* db.py: whether the collections are connected
    collection,           \* the feedback collection (a sequence of documents)
    submissions,          \* concurrent insert_feedback calls: position and locals
    forms_collection,     \* the feedback_forms collection
    db_result             \* what the last forms call returned

\* the variables outside the single analysis request, all but constructions
sideVars == <<threads, ACTIVE_SESSIONS, utcnow, admin_log, db_manager,
              collection, submissions, forms_collection, db_result>>

\* the variables of the single analysis request and the trainer analysis
engineVars == <<training_id, feedbacks, api_key, analyzer, clock, pc,
                quantitative_insights, qualitative_analysis, calls, report,
                prev, analysis, kpis>>

vars == <<training_id, feedbacks, api_key, analyzer, clock, pc,
          quantitative_insights, qualitative_analysis, calls, report, prev,
          analysis, kpis, constructions, threads, ACTIVE_SESSIONS, utcnow,
          admin_log, db_manager, collection, submissions, forms_collection,
          db_result>>

----------------------------------------------------------------------------
(* Bounds of the model *)

MaxRecords == 2
MaxKpiRecords == 2
MaxEngineRecords == 1
MaxSessions == 5
MaxPolarRecords == 3
MaxFallbackRecords == 2
MaxBoundarySessions == 5

\* records of the participant-count specification
MaxCountRecords == 3

\* analysis requests in flight at once
MaxThreads == 2

\* admin calls in one behaviour, successful logins among them, the hours the
\* clock runs and the hours it advances at a time
MaxAdminCalls == 4
MaxLogins == 2
MaxHours == 36
TickHours == 12

\* admin calls up to the last request to an admin endpoint
MaxEndpointCalls == 3

\* insert_feedback calls in flight at once
MaxSubmissions == 2

MaxForms == 2

----------------------------------------------------------------------------
(* Exact arithmetic *)

Abs(x) == IF x < 0 THEN -x ELSE x

Max(a, b) == IF a >= b THEN a ELSE b

Min(a, b) == IF a <= b THEN a ELSE b

RECURSIVE Gcd(_, _)
Gcd(a, b) == IF b = 0 THEN a ELSE Gcd(b, a % b)

Rat(n, d) == LET g == Gcd(Abs(n), d) IN <<n \div g, d \div g>>

RZero == <<0, 1>>

RInt(n) == <<n, 1>>

RAdd(a, b) == Rat(a[1] * b[2] + b[1] * a[2], a[2] * b[2])

RSub(a, b) == Rat(a[1] * b[2] - b[1] * a[2], a[2] * b[2])

RMul(a, b) == Rat(a[1] * b[1], a[2] * b[2])

RDivInt(a, n) == Rat(a[1], a[2] * n)

RLt(a, b) == a[1] * b[2] < b[1] * a[2]

RLe(a, b) == a[1] * b[2] <= b[1] * a[2]

RMax(a, b) == IF RLt(a, b) THEN b ELSE a

\* round(r * scale) to the nearest integer, ties to even (Python's round)
Round(r, scale) ==
    LET n   == r[1] * scale
        d   == r[2]
        fl  == n \div d
        rem == 2 * (n - fl * d)
    IN  IF rem > d THEN fl + 1
        ELSE IF rem < d THEN fl
        ELSE IF fl % 2 = 0 THEN fl ELSE fl + 1

RECURSIVE SumSeq(_)
SumSeq(s) == IF s = <<>> THEN 0 ELSE Head(s) + SumSeq(Tail(s))

RECURSIVE RSumSeq(_)
RSumSeq(s) == IF s = <<>> THEN RZero ELSE RAdd(Head(s), RSumSeq(Tail(s)))

RECURSIVE MaxSeq(_)
MaxSeq(s) == IF Len(s) = 1 THEN s[1] ELSE Max(s[1], MaxSeq(Tail(s)))

RECURSIVE MinSeq(_)
MinSeq(s) == IF Len(s) = 1 THEN s[1] ELSE Min(s[1], MinSeq(Tail(s)))

\* the values of a dict, as a sequence (dict.values())
RECURSIVE DictValues(_)
DictValues(q) ==
    IF DOMAIN q = {} THEN <<>>
    ELSE LET k == CHOOSE x \in DOMAIN q : TRUE
         IN  <<q[k]>> \o DictValues([x \in DOMAIN q \ {k} |-> q[x]])

EmptyDict == [m \in {} |-> 0]

RAbs(r) == <<Abs(r[1]), r[2]>>

(* Binary floating point.  Python floats are doubles, and 0.2 or 1/3 is no  *)
(* double.  A double is kept as [r, c]: the exact rational r  *)
(* the computation aims at, and the error c in units of 2^-60, so that the  *)
(* double is r + c * 2^-60.  FloatRound rounds such a number to the nearest *)
(* double (53-bit mantissa, ties to even); the mantissa's remainder is      *)
(* found by modular arithmetic, so no large integer is needed.              *)

RECURSIVE Pow2(_)
Pow2(n) ==
    IF n = 0 THEN 1
    ELSE LET h == Pow2(n \div 2)
         IN  IF n % 2 = 0 THEN h * h ELSE 2 * h * h

\* 2^n mod m, for n up to 60
Pow2Mod(n, m) ==
    IF n <= 30 THEN Pow2(n) % m
    ELSE ((Pow2(30) % m) * (Pow2(n - 30) % m)) % m

\* 2^e as a rational
TwoTo(e) == IF e >= 0 THEN Rat(Pow2(e), 1) ELSE Rat(1, Pow2(-e))

\* the e with 2^e <= r < 2^(e+1), r positive
Binade(r) ==
    CHOOSE e \in -7..10 : RLe(TwoTo(e), r) /\ RLt(r, TwoTo(e + 1))

\* the last step of the rounding: frac is what lies beyond the 53rd bit, in
\* units of that bit; ties go to the even mantissa
FloatRoundNearest(r, c, e, m2, frac) ==
    LET s   == IF r[1] > 0 THEN 1 ELSE -1
        q   == r[2]
        t   == Rat(m2 % q, q)
        k   == frac[1] \div frac[2]
        f   == <<frac[1] - k * frac[2], frac[2]>>
        odd == ((IF m2 >= q THEN 1 ELSE 0) + k) % 2 = 1
        up  == IF 2 * f[1] > f[2] THEN 1
               ELSE IF 2 * f[1] < f[2] THEN 0
               ELSE IF odd THEN 1 ELSE 0
    IN  [r |-> r, c |-> RMul(RInt(s * Pow2(e + 8)), RSub(RInt(k + up), t))]

\* the mantissa's remainder m2 (mod 2q, which keeps the parity of the last bit)
FloatRoundFrac(r, c, e, m2) ==
    CHOOSE y \in
        {FloatRoundNearest(r, c, e, m2, frac) :
            frac \in {RAdd(Rat(m2 % r[2], r[2]),
                           RDivInt(RMul(RInt(IF r[1] > 0 THEN 1 ELSE -1), c),
                                   Pow2(e + 8)))}} : TRUE

FloatRoundMantissa(r, c, e) ==
    CHOOSE y \in
        {FloatRoundFrac(r, c, e, m2) :
            m2 \in {(Pow2Mod(52 - e, 2 * r[2]) * Abs(r[1])) % (2 * r[2])}} : TRUE

\* the binade the rounded number lies in: one lower when r is a power of two
\* and the error points below it
FloatExponent(r, c) ==
    CHOOSE e \in
        {IF RAbs(r) = TwoTo(e0) /\ (IF r[1] > 0 THEN 1 ELSE -1) * c[1] < 0
         THEN e0 - 1 ELSE e0 : e0 \in {Binade(RAbs(r))}} : TRUE

\* the rounding on evaluated numbers
FloatRoundValue(r, c) ==
    IF r = RZero THEN [r |-> r, c |-> c]
    ELSE CHOOSE y \in
             {FloatRoundMantissa(r, c, e) : e \in {FloatExponent(r, c)}} : TRUE

\* the double nearest to r + c * 2^-60; a number with r = 0 is the difference
\* of two nearby doubles, which is a double.  Every intermediate result is
\* bound as a value (x \in {e}), so that it is computed once.
FloatRound(r, c) ==
    CHOOSE y \in {FloatRoundValue(rv, cv) : rv \in {r}, cv \in {c}} : TRUE

\* int / int, and a decimal literal: correctly rounded
Float(r) == FloatRound(r, RZero)

FloatAdd(x, y) ==
    CHOOSE z \in {FloatRound(RAdd(xv.r, yv.r), RAdd(xv.c, yv.c)) :
                     xv \in {x}, yv \in {y}} : TRUE

FloatSub(x, y) ==
    CHOOSE z \in {FloatRound(RSub(xv.r, yv.r), RSub(xv.c, yv.c)) :
                     xv \in {x}, yv \in {y}} : TRUE

\* x / 2 is exact
FloatHalf(x) ==
    CHOOSE z \in {[r |-> RDivInt(xv.r, 2), c |-> RDivInt(xv.c, 2)] :
                     xv \in {x}} : TRUE

FloatNeg(x) ==
    CHOOSE z \in {[r |-> RSub(RZero, xv.r), c |-> RSub(RZero, xv.c)] :
                     xv \in {x}} : TRUE

\* x < y; the errors decide only between doubles that aim at the same rational
FloatLt(x, y) ==
    \E xv \in {x}, yv \in {y} :
        IF xv.r = yv.r THEN RLt(xv.c, yv.c) ELSE RLt(xv.r, yv.r)

\* x * n and x / n for an int n: the double nearest to the exact result
FloatMulInt(x, n) ==
    CHOOSE z \in {FloatRound(RMul(xv.r, RInt(n)), RMul(xv.c, RInt(n))) :
                     xv \in {x}} : TRUE

FloatDivInt(x, n) ==
    CHOOSE z \in {FloatRound(RDivInt(xv.r, n), RDivInt(xv.c, n)) :
                     xv \in {x}} : TRUE

\* int(x) for x >= 0: a double just under an integer truncates to the one below
FloatInt(x) ==
    CHOOSE z \in {IF xv.r[2] = 1 /\ xv.c[1] < 0
                  THEN xv.r[1] - 1 ELSE xv.r[1] \div xv.r[2] : xv \in {x}} : TRUE

----------------------------------------------------------------------------
(* Inputs *)

Metrics == {"content_quality", "clarity"}

\* the ratings a stored record may carry: 1 and 5 are valid, 6 is out of range
RatingValues == {1, 5, 6}

Quantitatives(V) == UNION {[K -> V] : K \in SUBSET Metrics}

Records(ids, V, X) ==
    {[training_id |-> t, has_quantitative |-> TRUE, quantitative |-> q,
      has_text |-> x] : t \in ids, q \in Quantitatives(V), x \in X}
    \cup {[training_id |-> t, has_quantitative |-> FALSE,
           quantitative |-> EmptyDict, has_text |-> x] : t \in ids, x \in X}

SeqsUpTo(S, n) == UNION {[1..k -> S] : k \in 0..n}

TrainingIds == {"S1"}

----------------------------------------------------------------------------
(* Rating Aggregator: analyze_comprehensive_training_feedback, lines 364-399 *)

\* quantitative_data: the 'quantitative' dict of every record that has one
QuantitativeData(fbs) ==
    LET withq == SelectSeq(fbs, LAMBDA f : f.has_quantitative)
    IN  [i \in 1..Len(withq) |-> withq[i].quantitative]

\* qualitative_texts: one text per record with a non-blank answer
QualitativeTexts(fbs) == SelectSeq(fbs, LAMBDA f : f.has_text)

\* values = [q.get(metric) for q in quantitative_data if q.get(metric) is not None]
MetricValues(qd, metric) ==
    LET has == SelectSeq(qd, LAMBDA q : metric \in DOMAIN q)
    IN  [i \in 1..Len(has) |-> has[i][metric]]

CountOf(values, v) == Cardinality({i \in DOMAIN values : values[i] = v})

\* average is kept in hundredths: round(sum(values) / len(values), 2)
MetricStats(values) ==
    [average      |-> Round(Rat(SumSeq(values), Len(values)), 100),
     min          |-> MinSeq(values),
     max          |-> MaxSeq(values),
     count        |-> Len(values),
     distribution |-> [excellent_5 |-> CountOf(values, 5),
                       very_good_4 |-> CountOf(values, 4),
                       good_3      |-> CountOf(values, 3),
                       fair_2      |-> CountOf(values, 2),
                       poor_1      |-> CountOf(values, 1)]]

\* the metric names are those of the first quantitative dict
InsightMetrics(qd) == DOMAIN qd[1]

QuantitativeInsights(qd) ==
    IF Len(qd) = 0 THEN EmptyDict
    ELSE [m \in {x \in InsightMetrics(qd) : Len(MetricValues(qd, x)) > 0} |->
             MetricStats(MetricValues(qd, m))]

----------------------------------------------------------------------------
(* Fallback analysis: analyze_comprehensive_training_feedback, lines 515-600 *)

StatsSeq(qi) == DictValues(qi)

\* overall_avg = sum(all_averages) / len(all_averages), 0 without insights
OverallAvg(qi) ==
    LET st == StatsSeq(qi)
    IN  IF Len(st) = 0 THEN RZero
        ELSE Rat(SumSeq([i \in 1..Len(st) |-> st[i].average]), 100 * Len(st))

\* the statistics whose count is positive (total_responses > 0)
Counted(qi) == SelectSeq(StatsSeq(qi), LAMBDA st : st.count > 0)

PoorPct(st) == Rat((st.distribution.poor_1 + st.distribution.fair_2) * 100, st.count)

ExcellentPct(st) == Rat(st.distribution.excellent_5 * 100, st.count)

Variance(st) == st.max - st.min

PoorPercentage(qi) ==
    LET c == Counted(qi)
    IN  IF Len(c) = 0 THEN RZero
        ELSE RDivInt(RSumSeq([i \in 1..Len(c) |-> PoorPct(c[i])]), Len(c))

ExcellentPercentage(qi) ==
    LET c == Counted(qi)
    IN  IF Len(c) = 0 THEN RZero
        ELSE RDivInt(RSumSeq([i \in 1..Len(c) |-> ExcellentPct(c[i])]), Len(c))

\* sum(s) over the first n doubles of s, added from left to right
RECURSIVE FloatSum(_, _)
FloatSum(s, n) ==
    IF n = 0 THEN Float(RZero) ELSE FloatAdd(FloatSum(s, n - 1), s[n])

\* the double of count / total_responses * 100
FloatPct(count, total_responses) ==
    FloatMulInt(Float(Rat(count, total_responses)), 100)

\* the per-metric doubles poor_pct and excellent_pct of lines 537-538
PoorPcts(qi) ==
    CHOOSE p \in
        {[i \in 1..Len(c) |->
             FloatPct(c[i].distribution.poor_1 + c[i].distribution.fair_2,
                      c[i].count)] : c \in {Counted(qi)}} : TRUE

ExcellentPcts(qi) ==
    CHOOSE p \in
        {[i \in 1..Len(c) |-> FloatPct(c[i].distribution.excellent_5, c[i].count)] :
            c \in {Counted(qi)}} : TRUE

\* sum(...) / len(...) of lines 545-546, as the doubles the code holds
FloatPoorPercentage(qi) ==
    IF Len(Counted(qi)) = 0 THEN Float(RZero)
    ELSE CHOOSE z \in {FloatDivInt(FloatSum(p, Len(p)), Len(p)) :
                          p \in {PoorPcts(qi)}} : TRUE

FloatExcellentPercentage(qi) ==
    IF Len(Counted(qi)) = 0 THEN Float(RZero)
    ELSE CHOOSE z \in {FloatDivInt(FloatSum(p, Len(p)), Len(p)) :
                          p \in {ExcellentPcts(qi)}} : TRUE

AvgVariance(qi) ==
    LET c == Counted(qi)
    IN  Rat(SumSeq([i \in 1..Len(c) |-> Variance(c[i])]), Len(c))

\* mutant: a spread of exactly 3 points already counts as polarized
PolarizationDetectedFromThree(qi) ==
    IF Len(Counted(qi)) = 0 THEN FALSE
    ELSE \/ RLe(RInt(3), AvgVariance(qi))
         \/ /\ RLt(RInt(20), PoorPercentage(qi))
            /\ RLt(RInt(20), ExcellentPercentage(qi))

PolarizationDetected(qi) ==
    IF Len(Counted(qi)) = 0 THEN FALSE
    ELSE \/ RLt(RInt(3), AvgVariance(qi))
         \/ /\ RLt(RInt(20), PoorPercentage(qi))
            /\ RLt(RInt(20), ExcellentPercentage(qi))

Half(n) == Rat(n, 2)

\* mutant: the risk level looks at the overall average only
RiskLevelAverageOnly(qi) ==
    IF RLt(OverallAvg(qi), Half(5)) THEN "high"
    ELSE IF RLt(OverallAvg(qi), Half(7)) THEN "medium"
         ELSE "low"

RiskLevel(qi) ==
    IF RLt(RInt(40), PoorPercentage(qi)) \/ RLt(OverallAvg(qi), Half(5)) THEN "high"
    ELSE IF RLt(RInt(20), PoorPercentage(qi)) \/ RLt(OverallAvg(qi), Half(7))
         THEN "medium"
         ELSE "low"

Sentiment(qi) ==
    IF PolarizationDetected(qi) THEN "mixed"
    ELSE IF RLt(OverallAvg(qi), Half(5)) THEN "negative"
    ELSE IF RLt(OverallAvg(qi), Half(7)) THEN "neutral"
    ELSE "positive"

\* the f-string of the summary: its template and the numbers it prints (.1f)
ExecSummary(tid, n, qi) ==
    [template  |-> IF PolarizationDetected(qi) THEN "polarized"
                   ELSE IF RLt(OverallAvg(qi), Half(5)) THEN "consistently poor"
                   ELSE IF RLt(RInt(4), OverallAvg(qi)) THEN "consistently positive"
                   ELSE "mixed",
     training_id  |-> tid,
     participants |-> n,
     average      |-> Round(OverallAvg(qi), 10),
     poor         |-> Round(PoorPercentage(qi), 10),
     excellent    |-> Round(ExcellentPercentage(qi), 10)]

\* _create_enhanced_polarization_solutions
CreateEnhancedPolarizationSolutions(detected, qi, overall, poor, excellent, total) ==
    IF ~detected THEN [kind |-> "consistent"]
    ELSE LET st  == StatsSeq(qi)
             dis == FloatInt(FloatDivInt(FloatMulInt(poor, total), 100))
             sat == FloatInt(FloatDivInt(FloatMulInt(excellent, total), 100))
         IN  [kind                |-> "polarized",
              dissatisfied_count  |-> dis,
              satisfied_count     |-> sat,
              neutral_count       |-> total - dis - sat,
              problematic_metrics |->
                  Cardinality({i \in DOMAIN st : st[i].average < 250}),
              average             |-> Round(overall, 10),
              total_participants  |-> total]

\* the dict built at lines 584-600; response_content is the service's reply
FallbackAnalysis(tid, n, qi, response_content) ==
    [executive_summary      |-> ExecSummary(tid, n, qi),
     overall_sentiment      |-> Sentiment(qi),
     key_strengths          |-> IF n > 5 THEN "high engagement" ELSE "multiple",
     critical_improvements  |-> IF RLt(OverallAvg(qi), Half(7))
                                THEN "address" ELSE "monitor",
     polarization_detected  |-> PolarizationDetected(qi),
     polarization_solutions |->
         CreateEnhancedPolarizationSolutions(PolarizationDetected(qi), qi,
             OverallAvg(qi), FloatPoorPercentage(qi),
             FloatExcellentPercentage(qi), n),
     recommendations        |-> IF RLt(OverallAvg(qi), Half(5))
                                THEN "address immediately" ELSE "monitor",
     risk_level             |-> RiskLevel(qi),
     priority_areas         |-> IF RLt(OverallAvg(qi), Half(7)) THEN 3 ELSE 2,
     success_indicators     |-> IF RLe(Half(7), OverallAvg(qi))
                                THEN "positive trends" ELSE "improved ratings",
     confidence             |-> 70,
     parsing_error          |-> TRUE,
     raw_response           |-> response_content]

----------------------------------------------------------------------------
(* The analyzer and the text-insight service *)

NoAnalyzer == [created |-> FALSE, client |-> FALSE]

\* OpenAIFeedbackAnalyzer._initialize_client: openai.OpenAI(api_key=...) raises
\* without a key, and the client stays None
InitializeClient(a) == [a EXCEPT !.client = a.client \/ api_key]

\* get_analyzer: the global is created on first use and kept
GetAnalyzer(a) ==
    IF a.created THEN a
    ELSE InitializeClient([created |-> TRUE, client |-> FALSE])

\* what client.chat.completions.create can do for the enhanced prompt
\*   raise       timeout, network or API error
\*   malformed   a reply that is not JSON
\*   json_object a reply that is a JSON object
\*   json_other  a reply that is JSON but no object (a list, a string, a number)
\*   json_null   the reply "null"
EnhancedReplies == {"raise", "malformed", "json_object", "json_other", "json_null"}

\* what it can do inside analyze_text_feedback
TextReplies == {"raise", "reply"}

\* a service call that failed by raising, or could not be made for want of a client
Failed(o) == o \in {"raise", "no_client"}

\* response_content is assigned at line 504, after create() has returned
ResponseContentBound(o) == o \in {"malformed", "json_object", "json_other", "json_null"}

\* enhanced_analysis is None after line 513: create() or json.loads raised, or
\* json.loads returned None
EnhancedIsNone(o) == o \in {"raise", "no_client", "malformed", "json_null"}

\* mutant: the fallback of lines 415-423 carries a timestamp
QualitativeAnalysisStamped(o, tid, fbs, now) ==
    IF o = "no_client" THEN [kind |-> "unavailable"]
    ELSE IF o = "reply" THEN [kind |-> "service", analysis_timestamp |-> now]
    ELSE [kind |-> "fallback", training_id |-> tid,
          responses |-> Len(QualitativeTexts(fbs)), analysis_timestamp |-> now]

\* analyze_text_feedback as called at line 411, with the except of lines 412-423
QualitativeAnalysis(o, tid, fbs, now) ==
    IF o = "no_client" THEN [kind |-> "unavailable"]
    ELSE IF o = "reply" THEN [kind |-> "service", analysis_timestamp |-> now]
    ELSE [kind |-> "fallback", training_id |-> tid,
          responses |-> Len(QualitativeTexts(fbs))]

----------------------------------------------------------------------------
(* The report: analyze_comprehensive_training_feedback, lines 602-625 *)

NoReport == [status |-> "none"]

Raised(e) == [status |-> "raised", error |-> e]

HasEmptyDict(qd) == \E i \in DOMAIN qd : DOMAIN qd[i] = {}

\* round(sum([sum(q.values()) / len(q) for q in quantitative_data])
\*       / len(quantitative_data), 2) if quantitative_data else 0
OverallAverageRating(qd) ==
    IF Len(qd) = 0 THEN 0
    ELSE Round(RDivInt(RSumSeq([i \in 1..Len(qd) |->
                   Rat(SumSeq(DictValues(qd[i])), Cardinality(DOMAIN qd[i]))]),
               Len(qd)), 100)

EnhancedAnalysis(o, tid, fbs, qi) ==
    IF EnhancedIsNone(o) THEN FallbackAnalysis(tid, Len(fbs), qi, o)
    ELSE [kind |-> "service"]

Report(o, tid, fbs, qi, qa) ==
    LET qd == QuantitativeData(fbs)
        ea == EnhancedAnalysis(o, tid, fbs, qi)
        fb == EnhancedIsNone(o)
    IN  IF fb /\ ~ResponseContentBound(o) THEN Raised("UnboundLocalError")
        ELSE IF HasEmptyDict(qd) THEN Raised("ZeroDivisionError")
        ELSE IF o = "json_other" THEN Raised("AttributeError")
        ELSE [status                |-> "ok",
              training_id           |-> tid,
              total_participants    |-> Len(fbs),
              qualitative_analysis  |-> qa,
              quantitative_insights |-> qi,
              enhanced_analysis     |-> ea,
              data_summary          |->
                  [quantitative_responses |-> Len(qd),
                   qualitative_responses  |-> Len(QualitativeTexts(fbs)),
                   overall_average_rating |-> OverallAverageRating(qd)],
              sentiment             |-> IF fb THEN ea.overall_sentiment ELSE "service",
              risk_assessment       |-> IF fb THEN ea.risk_level ELSE "service",
              all_feedbacks         |-> fbs]

----------------------------------------------------------------------------
(* KPI Calculator: calculate_kpis, src/app.py lines 1301-1450 *)

\* session ids in ascending string order, as list.sort orders them
SessionOrder == <<"S1", "S2", "S3", "S4", "S5", "S6">>

Rank(id) == CHOOSE i \in DOMAIN SessionOrder : SessionOrder[i] = id

\* every value of every 'quantitative' dict, record after record
RECURSIVE AllRatings(_)
AllRatings(fbs) ==
    IF Len(fbs) = 0 THEN <<>>
    ELSE (IF Head(fbs).has_quantitative
          THEN DictValues(Head(fbs).quantitative) ELSE <<>>)
         \o AllRatings(Tail(fbs))

\* sessions[session_id]: the records of one training_id
SessionFeedbacks(fbs, id) == SelectSeq(fbs, LAMBDA f : f.training_id = id)

SessionIdsOf(fbs) == {fbs[i].training_id : i \in DOMAIN fbs}

\* mutant: the session average is the mean of the session's per-metric means
SessionAverageByMetric(fbs, id) ==
    LET sf == SessionFeedbacks(fbs, id)
        qd == QuantitativeData(sf)
        ms == UNION {DOMAIN qd[i] : i \in DOMAIN qd}
        av == DictValues([m \in ms |->
                  Rat(SumSeq(MetricValues(qd, m)), Len(MetricValues(qd, m)))])
    IN  RDivInt(RSumSeq(av), Len(av))

\* session_avg / count, for a session with count > 0
SessionAverage(fbs, id) ==
    LET r == AllRatings(SessionFeedbacks(fbs, id))
    IN  Rat(SumSeq(r), Len(r))

RatedSessions(fbs) ==
    {id \in SessionIdsOf(fbs) : Len(AllRatings(SessionFeedbacks(fbs, id))) > 0}

RECURSIVE SortIds(_)
SortIds(S) ==
    IF S = {} THEN <<>>
    ELSE LET m == CHOOSE x \in S : \A y \in S : Rank(x) <= Rank(y)
         IN  <<m>> \o SortIds(S \ {m})

\* session_ratings after the sort of line 1328
SessionRatings(fbs) ==
    LET ids == SortIds(RatedSessions(fbs))
    IN  [i \in 1..Len(ids) |->
            [session_id |-> ids[i], average_rating |-> SessionAverage(fbs, ids[i])]]

Averages(sr) == [i \in 1..Len(sr) |-> sr[i].average_rating]

Mean(rs) == RDivInt(RSumSeq(rs), Len(rs))

LastN(s, k) == IF Len(s) >= k THEN SubSeq(s, Len(s) - k + 1, Len(s)) ELSE s

Square(r) == RMul(r, r)

\* count / total * 100, 0 when there is nothing to count
Percentage(count, total) == IF total = 0 THEN RZero ELSE Rat(count * 100, total)

\* KPI 1, lines 1331-1332
AvgLast3(rs) == IF Len(rs) = 0 THEN RZero ELSE Mean(LastN(rs, 3))

\* mutant: the score of fewer than 2 sessions defaults to 0
ConsistencyScoreZeroDefault(rs, overall_avg) ==
    IF Len(rs) > 1
    THEN LET variance ==
                 RDivInt(RSumSeq([i \in 1..Len(rs) |->
                             Square(RSub(rs[i], overall_avg))]), Len(rs))
         IN  RMax(RZero, RSub(RInt(100), RMul(variance, RInt(20))))
    ELSE RZero

\* mutant: the score is not clamped at 0
ConsistencyScoreNoClamp(rs, overall_avg) ==
    IF Len(rs) > 1
    THEN LET variance ==
                 RDivInt(RSumSeq([i \in 1..Len(rs) |->
                             Square(RSub(rs[i], overall_avg))]), Len(rs))
         IN  RSub(RInt(100), RMul(variance, RInt(20)))
    ELSE RInt(100)

\* KPI 2, lines 1335-1340; overall_avg is the caller's argument
ConsistencyScore(rs, overall_avg) ==
    IF Len(rs) > 1
    THEN LET variance ==
                 RDivInt(RSumSeq([i \in 1..Len(rs) |->
                             Square(RSub(rs[i], overall_avg))]), Len(rs))
         IN  RMax(RZero, RSub(RInt(100), RMul(variance, RInt(20))))
    ELSE RInt(100)

\* sum(...) / 2 over two session averages, each the double of sum / count
FloatPairMean(a, b) == FloatHalf(FloatAdd(Float(a), Float(b)))

\* mutant: the second half is summed over the last three sessions
ImprovementTrendLastThree(rs) ==
    IF Len(rs) >= 5
    THEN LET recent_5    == LastN(rs, 5)
             first_half  == FloatPairMean(recent_5[1], recent_5[2])
             second_half == FloatHalf(FloatAdd(FloatAdd(Float(recent_5[3]),
                                Float(recent_5[4])), Float(recent_5[5])))
             improvement == FloatSub(second_half, first_half)
         IN  IF FloatLt(Float(Rat(1, 5)), improvement) THEN "Improving"
             ELSE IF FloatLt(improvement, FloatNeg(Float(Rat(1, 5)))) THEN "Declining"
             ELSE "Stable"
    ELSE "Insufficient Data"

\* KPI 3, lines 1343-1355
ImprovementTrend(rs) ==
    IF Len(rs) >= 5
    THEN LET recent_5    == LastN(rs, 5)
             first_half  == FloatPairMean(recent_5[1], recent_5[2])
             second_half == FloatPairMean(recent_5[4], recent_5[5])
             improvement == FloatSub(second_half, first_half)
         IN  IF FloatLt(Float(Rat(1, 5)), improvement) THEN "Improving"
             ELSE IF FloatLt(improvement, FloatNeg(Float(Rat(1, 5)))) THEN "Declining"
             ELSE "Stable"
    ELSE "Insufficient Data"

\* lines 1363-1364, 1375-1376, 1379-1380 (r >= 4.5 on integers is 2r >= 9)
SatisfactionRate(all) ==
    Percentage(Cardinality({i \in DOMAIN all : all[i] >= 4}), Len(all))

ExcellenceRate(all) ==
    Percentage(Cardinality({i \in DOMAIN all : 2 * all[i] >= 9}), Len(all))

PoorRate(all) ==
    Percentage(Cardinality({i \in DOMAIN all : all[i] < 3}), Len(all))

\* line 1368
OverallAvgRating(all) == IF Len(all) = 0 THEN RZero ELSE Rat(SumSeq(all), Len(all))

RECURSIVE RMaxSeq(_)
RMaxSeq(s) == IF Len(s) = 1 THEN s[1] ELSE RMax(s[1], RMaxSeq(Tail(s)))

RMin(a, b) == IF RLt(b, a) THEN b ELSE a

RECURSIVE RMinSeq(_)
RMinSeq(s) == IF Len(s) = 1 THEN s[1] ELSE RMin(s[1], RMinSeq(Tail(s)))

\* lines 1371-1372
BestSessionRating(rs) == IF Len(rs) = 0 THEN RZero ELSE RMaxSeq(rs)

WorstSessionRating(rs) == IF Len(rs) = 0 THEN RZero ELSE RMinSeq(rs)

\* lines 1383-1384
TargetAchievementRate(rs) ==
    Percentage(Cardinality({i \in DOMAIN rs : RLe(RInt(4), rs[i])}), Len(rs))

\* (b - a) / a * 100, 0 unless a > 0
PercentChange(a, b) ==
    IF RLt(RZero, a) THEN Rat((b[1] * a[2] - a[1] * b[2]) * 100, a[1] * b[2])
    ELSE RZero

\* mutant: the rate compares the two halves of all the sessions
ImprovementRateOverHalves(rs) ==
    IF Len(rs) >= 2
    THEN LET h == Len(rs) \div 2
         IN  PercentChange(Mean(SubSeq(rs, 1, h)), Mean(SubSeq(rs, h + 1, Len(rs))))
    ELSE RZero

\* lines 1387-1393
ImprovementRate(rs) ==
    IF Len(rs) >= 5
    THEN LET recent_5 == LastN(rs, 5)
         IN  PercentChange(Mean(SubSeq(recent_5, 1, 2)), Mean(SubSeq(recent_5, 4, 5)))
    ELSE RZero

\* lines 1396-1402
StabilityRate(rs) ==
    IF Len(rs) > 1
    THEN Percentage(
             Cardinality({i \in DOMAIN rs :
                 RLe(RAbs(RSub(rs[i], Mean(rs))), Rat(1, 2))}), Len(rs))
    ELSE RInt(100)

\* line 1405
AvgParticipantsPerSession(fbs, rs) ==
    IF Len(rs) = 0 THEN RZero ELSE Rat(Len(fbs), Len(rs))

\* lines 1408-1415
MonthlyGrowth(rs) ==
    IF Len(rs) >= 2
    THEN LET h == Len(rs) \div 2
         IN  PercentChange(Mean(SubSeq(rs, 1, h)), Mean(SubSeq(rs, h + 1, Len(rs))))
    ELSE RZero

\* mutant: the three rating rates are taken over the session averages
CalculateKpisBySession(fbs, overall_avg) ==
    LET rs  == Averages(SessionRatings(fbs))
        all == AllRatings(fbs)
    IN  [avg_rating_last_3_sessions   |-> Round(AvgLast3(rs), 100),
         consistency_score            |-> Round(ConsistencyScore(rs, overall_avg), 10),
         improvement_trend            |-> ImprovementTrend(rs),
         satisfaction_rate            |->
             Round(Percentage(Cardinality({i \in DOMAIN rs :
                       RLe(RInt(4), rs[i])}), Len(rs)), 10),
         overall_avg_rating           |-> Round(OverallAvgRating(all), 100),
         best_session_rating          |-> Round(BestSessionRating(rs), 100),
         worst_session_rating         |-> Round(WorstSessionRating(rs), 100),
         rating_improvement_rate      |-> Round(ImprovementRate(rs), 10),
         excellence_rate              |->
             Round(Percentage(Cardinality({i \in DOMAIN rs :
                       RLe(Rat(9, 2), rs[i])}), Len(rs)), 10),
         poor_rating_rate             |->
             Round(Percentage(Cardinality({i \in DOMAIN rs :
                       RLt(rs[i], RInt(3))}), Len(rs)), 10),
         target_achievement_rate      |-> Round(TargetAchievementRate(rs), 10),
         monthly_growth_rate          |-> Round(MonthlyGrowth(rs), 10),
         avg_participants_per_session |-> Round(AvgParticipantsPerSession(fbs, rs), 10),
         performance_stability        |-> Round(StabilityRate(rs), 10)]

\* the dict returned at lines 1417-1441: ratings in hundredths, rates in tenths
CalculateKpis(fbs, overall_avg) ==
    LET rs  == Averages(SessionRatings(fbs))
        all == AllRatings(fbs)
    IN  [avg_rating_last_3_sessions   |-> Round(AvgLast3(rs), 100),
         consistency_score            |-> Round(ConsistencyScore(rs, overall_avg), 10),
         improvement_trend            |-> ImprovementTrend(rs),
         satisfaction_rate            |-> Round(SatisfactionRate(all), 10),
         overall_avg_rating           |-> Round(OverallAvgRating(all), 100),
         best_session_rating          |-> Round(BestSessionRating(rs), 100),
         worst_session_rating         |-> Round(WorstSessionRating(rs), 100),
         rating_improvement_rate      |-> Round(ImprovementRate(rs), 10),
         excellence_rate              |-> Round(ExcellenceRate(all), 10),
         poor_rating_rate             |-> Round(PoorRate(all), 10),
         target_achievement_rate      |-> Round(TargetAchievementRate(rs), 10),
         monthly_growth_rate          |-> Round(MonthlyGrowth(rs), 10),
         avg_participants_per_session |-> Round(AvgParticipantsPerSession(fbs, rs), 10),
         performance_stability        |-> Round(StabilityRate(rs), 10)]

\* a stored rating that is not a number (a string, null): the model's token
\* for it; validate_feedback_data accepts it next to one rating in 1..5
NonNumeric == 99

IsNumber(v) == v # NonNumeric

HasNonNumeric(fbs) ==
    \E i \in DOMAIN fbs :
        /\ fbs[i].has_quantitative
        /\ \E m \in DOMAIN fbs[i].quantitative : ~IsNumber(fbs[i].quantitative[m])

\* sum(feedback['quantitative'].values()) at line 1319 raises TypeError
KpisRaise(fbs) == HasNonNumeric(fbs)

\* the dict returned by the except clause, lines 1443-1450
ErrorKpis ==
    [avg_rating_last_3_sessions |-> 0,
     consistency_score          |-> 0,
     improvement_trend          |-> "Error",
     satisfaction_rate          |-> 0]

Returned(v) == [status |-> "returned", value |-> v]

\* mutant: the exception of the body is not caught
CalculateKpisTryUncaught(fbs, overall_avg) ==
    IF KpisRaise(fbs) THEN Raised("TypeError")
    ELSE Returned(CalculateKpis(fbs, overall_avg))

\* calculate_kpis as a whole: the body inside try, and the except clause
CalculateKpisTry(fbs, overall_avg) ==
    IF KpisRaise(fbs) THEN Returned(ErrorKpis)
    ELSE Returned(CalculateKpis(fbs, overall_avg))

----------------------------------------------------------------------------
(* analyze_trainer_performance_data, src/app.py lines 1205-1299 *)

\* the metric names of all_ratings: every key of every 'quantitative' dict
RatedMetrics(fbs) ==
    LET qd == QuantitativeData(fbs)
    IN  UNION {DOMAIN qd[i] : i \in DOMAIN qd}

\* avg_ratings[metric] = sum(ratings) / len(ratings)
AvgRatings(fbs) ==
    LET qd == QuantitativeData(fbs)
    IN  [m \in RatedMetrics(fbs) |->
            Rat(SumSeq(MetricValues(qd, m)), Len(MetricValues(qd, m)))]

\* overall_avg = sum(avg_ratings.values()) / len(avg_ratings), 0 without ratings
TrainerOverallAvg(fbs) ==
    LET a == DictValues(AvgRatings(fbs))
    IN  IF Len(a) = 0 THEN RZero ELSE Mean(a)

\* calculate_session_trends, lines 1463-1471: session_avg and count of one
\* session, accumulated record after record
RECURSIVE TrendTotals(_)
TrendTotals(session_feedbacks) ==
    IF Len(session_feedbacks) = 0 THEN <<0, 0>>
    ELSE LET feedback == Head(session_feedbacks)
             rest     == TrendTotals(Tail(session_feedbacks))
         IN  IF feedback.has_quantitative
             THEN <<SumSeq(DictValues(feedback.quantitative)) + rest[1],
                    Cardinality(DOMAIN feedback.quantitative) + rest[2]>>
             ELSE rest

\* calculate_session_trends, lines 1452-1483
CalculateSessionTrends(fbs) ==
    LET ids == SortIds({id \in SessionIdsOf(fbs) :
                   TrendTotals(SessionFeedbacks(fbs, id))[2] > 0})
    IN  [i \in 1..Len(ids) |->
            LET totals == TrendTotals(SessionFeedbacks(fbs, ids[i]))
            IN  [session_id        |-> ids[i],
                 average_rating    |-> Rat(totals[1], totals[2]),
                 participant_count |-> Len(SessionFeedbacks(fbs, ids[i]))]]

\* sum(ratings) at line 1226 raises TypeError
TrainerRaises(fbs) == HasNonNumeric(fbs)

\* the dict returned by the except clause, lines 1289-1299
ErrorAnalysis ==
    [status  |-> "error",
     summary |-> [total_sessions         |-> 0,
                  total_participants     |-> 0,
                  overall_average_rating |-> 0]]

AnalyzeTrainerPerformanceData(fbs) ==
    IF TrainerRaises(fbs) THEN ErrorAnalysis
    ELSE [status  |-> "ok",
          summary |-> [total_sessions         |-> Cardinality(SessionIdsOf(fbs)),
                       total_participants     |-> Len(fbs),
                       overall_average_rating |-> Round(TrainerOverallAvg(fbs), 100)],
          average_ratings |->
              [m \in RatedMetrics(fbs) |-> Round(AvgRatings(fbs)[m], 100)],
          kpis    |-> CalculateKpisTry(fbs, TrainerOverallAvg(fbs)).value,
          session_trends |-> CalculateSessionTrends(fbs)]

----------------------------------------------------------------------------
(* The analysis request, step by step; it blocks at the two service calls *)

NoPrev == [ran |-> FALSE, calls |-> <<>>, report |-> NoReport]

NoAnalysis == [status |-> "none"]

NoKpis == [status |-> "none"]

\* nothing has run beside the request: no concurrent request, no admin
\* session, empty collections
InitSide ==
    /\ constructions = 0
    /\ threads = <<>>
    /\ ACTIVE_SESSIONS = <<>>
    /\ utcnow = 0
    /\ admin_log = <<>>
    /\ collection = <<>>
    /\ submissions = <<>>
    /\ forms_collection = <<>>
    /\ db_result = [op |-> "none"]

\* DatabaseManager.connect: the collections are there, or all None when the
\* server could not be reached
Connections == {"online", "offline"}

InitRequest ==
    /\ training_id \in TrainingIds
    /\ analyzer = NoAnalyzer
    /\ clock = 0
    /\ pc = "idle"
    /\ quantitative_insights = EmptyDict
    /\ qualitative_analysis = [kind |-> "unset"]
    /\ calls = <<>>
    /\ report = NoReport
    /\ prev = NoPrev
    /\ analysis = NoAnalysis
    /\ kpis = NoKpis
    /\ InitSide
    /\ db_manager = "online"

Init ==
    /\ feedbacks \in SeqsUpTo(Records(TrainingIds, RatingValues, BOOLEAN), MaxRecords)
    /\ api_key \in BOOLEAN
    /\ InitRequest

\* lines 356-407: the analyzer is fetched, the statistics are computed
AnalyzeStart ==
    /\ pc = "idle"
    /\ analyzer' = InitializeClient(GetAnalyzer(analyzer))
    /\ quantitative_insights' = QuantitativeInsights(QuantitativeData(feedbacks))
    /\ clock' = clock + 1
    /\ pc' = "qualitative"
    /\ UNCHANGED <<training_id, feedbacks, api_key, qualitative_analysis, calls,
                   report, prev, analysis, kpis>>
    /\ constructions' = constructions + (IF analyzer.created THEN 0 ELSE 1)
    /\ UNCHANGED sideVars

\* lines 409-423: the first service call, analyze_text_feedback
QualitativeCall ==
    /\ pc = "qualitative"
    /\ \E o \in IF analyzer.client THEN TextReplies ELSE {"no_client"} :
          /\ qualitative_analysis' =
                 QualitativeAnalysis(o, training_id, feedbacks, clock)
          /\ calls' = Append(calls, o)
    /\ pc' = "enhanced"
    /\ UNCHANGED <<training_id, feedbacks, api_key, analyzer, clock,
                   quantitative_insights, report, prev, analysis, kpis>>
    /\ UNCHANGED <<constructions, sideVars>>

\* lines 425-625: the second service call, the fallback and the return
EnhancedCall ==
    /\ pc = "enhanced"
    /\ \E o \in IF analyzer.client THEN EnhancedReplies ELSE {"no_client"} :
          /\ report' = Report(o, training_id, feedbacks, quantitative_insights,
                              qualitative_analysis)
          /\ calls' = Append(calls, o)
    /\ pc' = "done"
    /\ UNCHANGED <<training_id, feedbacks, api_key, analyzer, clock,
                   quantitative_insights, qualitative_analysis, prev, analysis,
                   kpis>>
    /\ UNCHANGED <<constructions, sideVars>>

\* the same request is issued a second time, whatever the first one returned
AnalyzeAgain ==
    /\ pc = "done"
    /\ ~prev.ran
    /\ prev' = [ran |-> TRUE, calls |-> calls, report |-> report]
    /\ analyzer' = InitializeClient(GetAnalyzer(analyzer))
    /\ quantitative_insights' = QuantitativeInsights(QuantitativeData(feedbacks))
    /\ qualitative_analysis' = [kind |-> "unset"]
    /\ calls' = <<>>
    /\ report' = NoReport
    /\ clock' = clock + 1
    /\ pc' = "qualitative"
    /\ UNCHANGED <<training_id, feedbacks, api_key, analysis, kpis>>
    /\ constructions' = constructions + (IF analyzer.created THEN 0 ELSE 1)
    /\ UNCHANGED sideVars

\* the trainer analysis request: analyze_trainer_performance_data as a whole
AnalyzeTrainer ==
    /\ analysis.status = "none"
    /\ analysis' = AnalyzeTrainerPerformanceData(feedbacks)
    /\ UNCHANGED <<training_id, feedbacks, api_key, analyzer, clock, pc,
                   quantitative_insights, qualitative_analysis, calls, report, prev,
                   kpis>>
    /\ UNCHANGED <<constructions, sideVars>>

\* the overall_avg a caller of calculate_kpis may pass: the one line 1229
\* computes when it can be computed, or 0
OverallAvgArgs(fbs) ==
    {RZero} \cup (IF TrainerRaises(fbs) THEN {} ELSE {TrainerOverallAvg(fbs)})

\* calculate_kpis called on the records
CalculateKpisCall ==
    /\ kpis.status = "none"
    /\ \E overall_avg \in OverallAvgArgs(feedbacks) :
          kpis' = CalculateKpisTry(feedbacks, overall_avg)
    /\ UNCHANGED <<training_id, feedbacks, api_key, analyzer, clock, pc,
                   quantitative_insights, qualitative_analysis, calls, report, prev,
                   analysis>>
    /\ UNCHANGED <<constructions, sideVars>>

\* the timeout argument of the create() call inside analyze_text_feedback
TextTimeout == [given |-> TRUE, seconds |-> 30]

\* the create() call of the enhanced prompt passes no timeout argument
EnhancedTimeout == [given |-> FALSE]

\* the service never answers the call the request is about to make: with a
\* timeout the client raises when it expires, which analyze_text_feedback turns
\* into the exception caught at line 412; without one the request stays in
\* create()
ServiceSilent ==
    /\ pc \in {"qualitative", "enhanced"}
    /\ analyzer.client
    /\ LET t == IF pc = "qualitative" THEN TextTimeout ELSE EnhancedTimeout
       IN  IF ~t.given
           THEN /\ pc' = "blocked"
                /\ calls' = Append(calls, "silent")
                /\ UNCHANGED <<qualitative_analysis, report>>
           ELSE IF pc = "qualitative"
           THEN /\ pc' = "enhanced"
                /\ calls' = Append(calls, "raise")
                /\ qualitative_analysis' =
                       QualitativeAnalysis("raise", training_id, feedbacks, clock)
                /\ UNCHANGED report
           ELSE /\ pc' = "done"
                /\ calls' = Append(calls, "raise")
                /\ report' = Report("raise", training_id, feedbacks,
                                    quantitative_insights, qualitative_analysis)
                /\ UNCHANGED qualitative_analysis
    /\ UNCHANGED <<training_id, feedbacks, api_key, analyzer, clock,
                   quantitative_insights, prev, analysis, kpis>>
    /\ UNCHANGED <<constructions, sideVars>>

Next == AnalyzeStart \/ QualitativeCall \/ EnhancedCall

Spec == Init /\ [][Next]_vars

\* the analysis request against a service that may never answer
NextSilent == AnalyzeStart \/ QualitativeCall \/ EnhancedCall \/ ServiceSilent

SpecSilent == Init /\ [][NextSilent]_vars

\* records of one session rating one metric 1, 3 or 5
CountRecords ==
    {[training_id |-> "S1", has_quantitative |-> TRUE, quantitative |-> q,
      has_text |-> FALSE] : q \in [{"content_quality"} -> {1, 3, 5}]}

InitCounts ==
    /\ feedbacks \in SeqsUpTo(CountRecords, MaxCountRecords)
    /\ api_key = TRUE
    /\ InitRequest

SpecCounts == InitCounts /\ [][Next]_vars

----------------------------------------------------------------------------
(* Analysis requests served by several threads of one process *)

\* a request is dispatched to a new thread with its own arguments
RequestArrives ==
    /\ Len(threads) < MaxThreads
    /\ \E fbs \in SeqsUpTo(CountRecords, 1) :
          threads' = Append(threads, [pc |-> "get_analyzer", fbs |-> fbs,
                                      calls |-> <<>>, report |-> NoReport])
    /\ UNCHANGED <<engineVars, constructions, ACTIVE_SESSIONS, utcnow,
                   admin_log, db_manager, collection, submissions,
                   forms_collection, db_result>>

\* get_analyzer, line 298: the test `analyzer is None` on the global
GetAnalyzerTest ==
    \E t \in DOMAIN threads :
        /\ threads[t].pc = "get_analyzer"
        /\ threads' = [threads EXCEPT ![t].pc =
                           IF analyzer.created THEN "analyze" ELSE "construct"]
        /\ UNCHANGED <<engineVars, constructions, ACTIVE_SESSIONS, utcnow,
                       admin_log, db_manager, collection, submissions,
                       forms_collection, db_result>>

\* get_analyzer, lines 299-300: the object is built and stored in the global
GetAnalyzerConstruct ==
    \E t \in DOMAIN threads :
        /\ threads[t].pc = "construct"
        /\ analyzer' = InitializeClient([created |-> TRUE, client |-> FALSE])
        /\ constructions' = constructions + 1
        /\ threads' = [threads EXCEPT ![t].pc = "analyze"]
        /\ UNCHANGED <<training_id, feedbacks, api_key, clock, pc,
                       quantitative_insights, qualitative_analysis, calls, report,
                       prev, analysis, kpis, ACTIVE_SESSIONS, utcnow, admin_log,
                       db_manager, collection, submissions, forms_collection,
                       db_result>>

\* what lines 364-625 return for the arguments fbs when the two service calls
\* end as o1 and o2
ThreadReport(fbs, o1, o2) ==
    Report(o2, training_id, fbs, QuantitativeInsights(QuantitativeData(fbs)),
           QualitativeAnalysis(o1, training_id, fbs, clock))

\* lines 360-625 on the thread's own arguments: the client is initialized if
\* it is missing, the two service calls are made, the report is returned
AnalyzeRest ==
    \E t \in DOMAIN threads :
        /\ threads[t].pc = "analyze"
        /\ analyzer' = InitializeClient(analyzer)
        /\ \E o1 \in IF InitializeClient(analyzer).client
                      THEN TextReplies ELSE {"no_client"},
              o2 \in IF InitializeClient(analyzer).client
                      THEN EnhancedReplies ELSE {"no_client"} :
              threads' = [threads EXCEPT ![t] =
                  [pc     |-> "done",
                   fbs    |-> threads[t].fbs,
                   calls  |-> <<o1, o2>>,
                   report |-> ThreadReport(threads[t].fbs, o1, o2)]]
        /\ UNCHANGED <<training_id, feedbacks, api_key, clock, pc,
                       quantitative_insights, qualitative_analysis, calls, report,
                       prev, analysis, kpis, constructions, ACTIVE_SESSIONS,
                       utcnow, admin_log, db_manager, collection, submissions,
                       forms_collection, db_result>>

InitThreads ==
    /\ feedbacks = <<>>
    /\ api_key \in BOOLEAN
    /\ InitRequest

NextThreads ==
    RequestArrives \/ GetAnalyzerTest \/ GetAnalyzerConstruct \/ AnalyzeRest

SpecThreads == InitThreads /\ [][NextThreads]_vars

----------------------------------------------------------------------------
(* Admin sessions: simple_admin.py, and the admin endpoints of app.py *)

\* the one account of ADMIN_CREDENTIALS and its password
AdminEmail == "admin@example.com"

AdminPassword == "the password"

ADMIN_CREDENTIALS == [e \in {AdminEmail} |-> [is_active |-> TRUE, role |-> "admin"]]

Emails == {AdminEmail, "other@example.com"}

Passwords == {AdminPassword, "another password"}

\* timedelta(hours=24)
SessionHours == 24

\* secrets.token_urlsafe(32): a token that was never issued before
NewToken == Cardinality({i \in DOMAIN admin_log :
                            admin_log[i].op = "login" /\ admin_log[i].success}) + 1

Tokens == 1..MaxLogins

\* del ACTIVE_SESSIONS[token]
DelSession(sessions, token) ==
    [t \in DOMAIN sessions \ {token} |-> sessions[t]]

\* login_admin: the result and ACTIVE_SESSIONS afterwards
LoginAdmin(sessions, email, password, token, now) ==
    IF email \notin DOMAIN ADMIN_CREDENTIALS
    THEN [success |-> FALSE, token |-> 0, sessions |-> sessions]
    ELSE IF ~ADMIN_CREDENTIALS[email].is_active
    THEN [success |-> FALSE, token |-> 0, sessions |-> sessions]
    ELSE IF password # AdminPassword
    THEN [success |-> FALSE, token |-> 0, sessions |-> sessions]
    ELSE [success  |-> TRUE,
          token    |-> token,
          sessions |-> [t \in DOMAIN sessions \cup {token} |->
                           IF t = token
                           THEN [admin_email |-> email, created_at |-> now,
                                 expires_at  |-> now + SessionHours]
                           ELSE sessions[t]]]

\* mutant: the expiry is not looked at
VerifyAdminSessionNoExpiry(sessions, token, now) ==
    IF token \notin DOMAIN sessions
    THEN [success |-> FALSE, message |-> "Invalid session", sessions |-> sessions]
    ELSE [success |-> TRUE, message |-> "", sessions |-> sessions]

\* verify_admin_session: the result and ACTIVE_SESSIONS afterwards
VerifyAdminSession(sessions, token, now) ==
    IF token \notin DOMAIN sessions
    THEN [success |-> FALSE, message |-> "Invalid session", sessions |-> sessions]
    ELSE IF now > sessions[token].expires_at
    THEN [success |-> FALSE, message |-> "Session expired",
          sessions |-> DelSession(sessions, token)]
    ELSE [success |-> TRUE, message |-> "", sessions |-> sessions]

\* logout_admin: the result and ACTIVE_SESSIONS afterwards
LogoutAdmin(sessions, token) ==
    [success  |-> TRUE,
     sessions |-> IF token \in DOMAIN sessions
                  THEN DelSession(sessions, token) ELSE sessions]

\* require_admin around a view: the session's admin_token (0: none) must be
\* there and verify
RequireAdmin(sessions, token, now) ==
    IF token = 0
    THEN [allowed |-> FALSE, sessions |-> sessions]
    ELSE [allowed  |-> VerifyAdminSession(sessions, token, now).success,
          sessions |-> VerifyAdminSession(sessions, token, now).sessions]

Logged(op, token, success) ==
    Append(admin_log, [op |-> op, token |-> token, success |-> success,
                       at |-> utcnow])

LoginAdminCall ==
    /\ Len(admin_log) < MaxAdminCalls
    /\ NewToken <= MaxLogins
    /\ \E email \in Emails, password \in Passwords :
          LET r == LoginAdmin(ACTIVE_SESSIONS, email, password, NewToken, utcnow)
          IN  /\ ACTIVE_SESSIONS' = r.sessions
              /\ admin_log' = Logged("login", r.token, r.success)
    /\ UNCHANGED <<engineVars, constructions, threads, utcnow, db_manager,
                   collection, submissions, forms_collection, db_result>>

VerifyAdminSessionCall ==
    /\ Len(admin_log) < MaxAdminCalls
    /\ \E token \in Tokens :
          LET r == VerifyAdminSession(ACTIVE_SESSIONS, token, utcnow)
          IN  /\ ACTIVE_SESSIONS' = r.sessions
              /\ admin_log' = Logged("verify", token, r.success)
    /\ UNCHANGED <<engineVars, constructions, threads, utcnow, db_manager,
                   collection, submissions, forms_collection, db_result>>

LogoutAdminCall ==
    /\ Len(admin_log) < MaxAdminCalls
    /\ \E token \in Tokens :
          LET r == LogoutAdmin(ACTIVE_SESSIONS, token)
          IN  /\ ACTIVE_SESSIONS' = r.sessions
              /\ admin_log' = Logged("logout", token, r.success)
    /\ UNCHANGED <<engineVars, constructions, threads, utcnow, db_manager,
                   collection, submissions, forms_collection, db_result>>

\* time passes
Tick ==
    /\ utcnow < MaxHours
    /\ utcnow' = utcnow + TickHours
    /\ UNCHANGED <<engineVars, constructions, threads, ACTIVE_SESSIONS,
                   admin_log, db_manager, collection, submissions,
                   forms_collection, db_result>>

\* GET /admin/get_feedback with the admin_token of the caller's session
\* (0: none): the view carries no decorator, get_feedback answers 200
AdminGetFeedback ==
    /\ Len(admin_log) < MaxEndpointCalls
    /\ \E token \in {0} \cup Tokens :
          admin_log' = Logged("admin_get_feedback", token, TRUE)
    /\ UNCHANGED <<engineVars, constructions, threads, ACTIVE_SESSIONS, utcnow,
                   db_manager, collection, submissions, forms_collection,
                   db_result>>

\* GET /admin/database_dashboard, a view under @require_admin
GetDatabaseDashboardData ==
    /\ Len(admin_log) < MaxEndpointCalls
    /\ \E token \in {0} \cup Tokens :
          LET r == RequireAdmin(ACTIVE_SESSIONS, token, utcnow)
          IN  /\ ACTIVE_SESSIONS' = r.sessions
              /\ admin_log' = Logged("database_dashboard", token, r.allowed)
    /\ UNCHANGED <<engineVars, constructions, threads, utcnow, db_manager,
                   collection, submissions, forms_collection, db_result>>

InitAdmin ==
    /\ feedbacks = <<>>
    /\ api_key = TRUE
    /\ InitRequest

NextAdmin == LoginAdminCall \/ VerifyAdminSessionCall \/ LogoutAdminCall \/ Tick

SpecAdmin == InitAdmin /\ [][NextAdmin]_vars

NextEndpoints ==
    \/ LoginAdminCall
    \/ Tick
    \/ AdminGetFeedback
    \/ GetDatabaseDashboardData

SpecEndpoints == InitAdmin /\ [][NextEndpoints]_vars

----------------------------------------------------------------------------
(* The feedback collection: insert_feedback, db.py *)

\* student names as they arrive, and training ids (submit_feedback has
\* already stripped and upper-cased both; a direct caller has not)
StudentNames == {"", " ", "ALICE", " alice"}

SubmittedTrainingIds == {"", "S1"}

\* (s or '').strip().upper()
StripUpper(name) ==
    IF name \in {"", " "} THEN "" ELSE IF name = " alice" THEN "ALICE" ELSE name

\* lines 72-73: a truthy student_name is normalized
NormalizedName(name) == IF name # "" THEN StripUpper(name) ELSE name

\* find_one({'training_id': ..., 'student_name': ...}) finds a document
Existing(docs, tid, name) ==
    \E i \in DOMAIN docs :
        docs[i].training_id = tid /\ docs[i].student_name = name

\* insert_feedback is called; offline it returns its simulated success at once
InsertFeedbackStart ==
    /\ Len(submissions) < MaxSubmissions
    /\ \E tid \in SubmittedTrainingIds, name \in StudentNames :
          submissions' = Append(submissions,
              IF db_manager = "offline"
              THEN [pc |-> "done", training_id |-> tid, student_name |-> name,
                    success |-> TRUE, message |-> "offline"]
              ELSE [pc |-> "check", training_id |-> tid,
                    student_name |-> NormalizedName(name),
                    success |-> FALSE, message |-> ""])
    /\ UNCHANGED <<engineVars, constructions, threads, ACTIVE_SESSIONS, utcnow,
                   admin_log, db_manager, collection, forms_collection,
                   db_result>>

\* lines 76-89: the duplicate check; find_one may raise, which is logged and
\* passed over
InsertFeedbackCheck ==
    \E t \in DOMAIN submissions :
        /\ submissions[t].pc = "check"
        /\ \E find_one \in {"answers", "raises"} :
              LET d == submissions[t]
              IN  submissions' = [submissions EXCEPT ![t] =
                      IF /\ d.training_id # ""
                         /\ d.student_name # ""
                         /\ find_one = "answers"
                         /\ Existing(collection, d.training_id, d.student_name)
                      THEN [d EXCEPT !.pc = "done", !.success = FALSE,
                                     !.message = "already submitted"]
                      ELSE [d EXCEPT !.pc = "insert"]]
        /\ UNCHANGED <<engineVars, constructions, threads, ACTIVE_SESSIONS, utcnow,
                       admin_log, db_manager, collection, forms_collection,
                       db_result>>

\* lines 91-104: insert_one, which may raise
InsertFeedbackInsert ==
    \E t \in DOMAIN submissions :
        /\ submissions[t].pc = "insert"
        /\ \E insert_one \in {"answers", "raises"} :
              IF insert_one = "answers"
              THEN /\ collection' = Append(collection,
                          [training_id  |-> submissions[t].training_id,
                           student_name |-> submissions[t].student_name])
                   /\ submissions' = [submissions EXCEPT
                          ![t].pc = "done", ![t].success = TRUE,
                          ![t].message = "submitted"]
              ELSE /\ collection' = collection
                   /\ submissions' = [submissions EXCEPT
                          ![t].pc = "done", ![t].success = FALSE,
                          ![t].message = "failed to insert"]
        /\ UNCHANGED <<engineVars, constructions, threads, ACTIVE_SESSIONS, utcnow,
                       admin_log, db_manager, forms_collection, db_result>>

InitDb ==
    /\ feedbacks = <<>>
    /\ api_key = TRUE
    /\ training_id \in TrainingIds
    /\ analyzer = NoAnalyzer
    /\ clock = 0
    /\ pc = "idle"
    /\ quantitative_insights = EmptyDict
    /\ qualitative_analysis = [kind |-> "unset"]
    /\ calls = <<>>
    /\ report = NoReport
    /\ prev = NoPrev
    /\ analysis = NoAnalysis
    /\ kpis = NoKpis
    /\ InitSide
    /\ db_manager \in Connections

NextSubmit ==
    InsertFeedbackStart \/ InsertFeedbackCheck \/ InsertFeedbackInsert

SpecSubmit == InitDb /\ [][NextSubmit]_vars

----------------------------------------------------------------------------
(* The feedback forms: create_feedback_form and update_feedback_form, db.py *)

\* the limits of lines 483 and 544
MaxChoice == 10

MaxSubjective == 10

MaxQuestions == 20

\* the 'type' of a question as a caller writes it
RawTypes == {"choice", "subjective", "Choice", " subjective", "essay"}

\* (q.get('type') or '').strip().lower()
StripLower(qtype) ==
    IF qtype = "Choice" THEN "choice"
    ELSE IF qtype = " subjective" THEN "subjective"
    ELSE qtype

\* lines 462-463: the type create_feedback_form gives a question, '' for a
\* question it passes over
QType(qtype) ==
    IF StripLower(qtype) = "choice" THEN "choice"
    ELSE IF StripLower(qtype) = "subjective" THEN "subjective"
    ELSE ""

\* a question list, as the number of its questions of each type
Questions(choice, subjective, capital, spaced, essay) ==
    [qtype \in RawTypes |->
        IF qtype = "choice" THEN choice
        ELSE IF qtype = "subjective" THEN subjective
        ELSE IF qtype = "Choice" THEN capital
        ELSE IF qtype = " subjective" THEN spaced
        ELSE essay]

QuestionLists ==
    { Questions(0, 0, 0, 0, 0),  Questions(1, 0, 0, 0, 0),
      Questions(10, 10, 0, 0, 0), Questions(11, 0, 0, 0, 0),
      Questions(0, 11, 0, 0, 0),  Questions(10, 10, 0, 0, 1),
      Questions(0, 0, 0, 0, 1),   Questions(0, 0, 1, 0, 0),
      Questions(10, 0, 1, 0, 0),  Questions(0, 10, 0, 1, 0) }

RECURSIVE CountTypes(_, _)
\* sum(1 for q in questions if q.get('type') in types)
CountTypes(questions, types) ==
    IF types = {} THEN 0
    ELSE LET qtype == CHOOSE x \in types : TRUE
         IN  questions[qtype] + CountTypes(questions, types \ {qtype})

\* len(questions)
LenQuestions(questions) == CountTypes(questions, RawTypes)

\* lines 459-470: the questions create_feedback_form keeps, each under its
\* normalized type
NormalizedQuestions(raw_questions) ==
    [qtype \in RawTypes |->
        CountTypes(raw_questions, {u \in RawTypes : QType(u) = qtype})]

\* lines 483 and 544
ExceedsLimits(questions) ==
    \/ questions["choice"] > MaxChoice
    \/ questions["subjective"] > MaxSubjective
    \/ LenQuestions(questions) > MaxQuestions

UniversityNames == {"", " Uni "}

FormTrainingIds == {"", " t1 "}

\* (s or '').strip()
Strip(s) == IF s = " Uni " THEN "Uni" ELSE IF s = " t1 " THEN "t1" ELSE s

\* .upper()
Upper(s) == IF s = "t1" THEN "T1" ELSE IF s = "Uni" THEN "UNI" ELSE s

DbResult(op, success, message) ==
    [op |-> op, success |-> success, message |-> message]

\* create_feedback_form(form_data), lines 445-499
CreateFeedbackFormResult(forms, online, form_data, insert_one) ==
    LET university_name == Strip(form_data.university_name)
        form_training_id == Upper(Strip(form_data.training_id))
        questions == NormalizedQuestions(form_data.questions)
    IN  IF ~online
        THEN [forms |-> forms, result |-> DbResult("create", TRUE, "offline")]
        ELSE IF university_name = "" \/ form_training_id = ""
        THEN [forms |-> forms, result |-> DbResult("create", FALSE, "required")]
        ELSE IF LenQuestions(questions) = 0
        THEN [forms |-> forms, result |-> DbResult("create", FALSE, "no question")]
        ELSE IF ExceedsLimits(questions)
        THEN [forms |-> forms, result |-> DbResult("create", FALSE, "limits")]
        ELSE IF insert_one = "raises"
        THEN [forms |-> forms, result |-> DbResult("create", FALSE, "failed")]
        ELSE [forms |-> Append(forms,
                            [university_name |-> university_name,
                             training_id |-> form_training_id,
                             questions |-> questions,
                             is_active |-> TRUE]),
              result |-> DbResult("create", TRUE, "inserted")]

\* a form id that ObjectId() refuses
NotAnObjectId == 0

\* the form ids a caller passes: those of the stored forms (their places in
\* the collection), one of no form, and one ObjectId() refuses
FormIds == {NotAnObjectId} \cup (1..(MaxForms + 1))

\* what a caller asks to set: 'questions', or 'is_active' alone
UpdateData ==
    [has_questions : {TRUE}, questions : QuestionLists, is_active : {TRUE}]
    \cup [has_questions : {FALSE}, questions : {Questions(0, 0, 0, 0, 0)},
          is_active : BOOLEAN]

\* update_feedback_form(form_id, update_data), lines 537-554
UpdateFeedbackFormResult(forms, online, form_id, update_data) ==
    IF ~online
    THEN [forms |-> forms, result |-> DbResult("update", FALSE, "offline")]
    ELSE IF update_data.has_questions /\ ExceedsLimits(update_data.questions)
    THEN [forms |-> forms, result |-> DbResult("update", FALSE, "limits")]
    ELSE IF form_id = NotAnObjectId
    THEN [forms |-> forms, result |-> DbResult("update", FALSE, "failed")]
    ELSE IF form_id \notin DOMAIN forms
    THEN [forms |-> forms, result |-> DbResult("update", FALSE, "not found")]
    ELSE [forms |-> [forms EXCEPT ![form_id] =
                        IF update_data.has_questions
                        THEN [@ EXCEPT !.questions = update_data.questions]
                        ELSE [@ EXCEPT !.is_active = update_data.is_active]],
          result |-> DbResult("update", TRUE, "updated")]

CreateFeedbackForm ==
    /\ Len(forms_collection) < MaxForms
    /\ \E university_name \in UniversityNames, tid \in FormTrainingIds,
          questions \in QuestionLists, insert_one \in {"answers", "raises"} :
          \E r \in {CreateFeedbackFormResult(forms_collection,
                        db_manager = "online",
                        [university_name |-> university_name,
                         training_id |-> tid, questions |-> questions],
                        insert_one)} :
              /\ forms_collection' = r.forms
              /\ db_result' = r.result
    /\ UNCHANGED <<engineVars, constructions, threads, ACTIVE_SESSIONS, utcnow,
                   admin_log, db_manager, collection, submissions>>

UpdateFeedbackForm ==
    /\ \E form_id \in FormIds, update_data \in UpdateData :
          \E r \in {UpdateFeedbackFormResult(forms_collection,
                        db_manager = "online", form_id, update_data)} :
              /\ forms_collection' = r.forms
              /\ db_result' = r.result
    /\ UNCHANGED <<engineVars, constructions, threads, ACTIVE_SESSIONS, utcnow,
                   admin_log, db_manager, collection, submissions>>

NextForms == CreateFeedbackForm \/ UpdateFeedbackForm

SpecForms == InitDb /\ [][NextForms]_vars

\* both entry points of the engine, fed the same records
InitEngine ==
    /\ feedbacks \in
           SeqsUpTo(Records(TrainingIds, RatingValues, BOOLEAN), MaxEngineRecords)
    /\ api_key \in BOOLEAN
    /\ InitRequest

NextEngine == AnalyzeStart \/ QualitativeCall \/ EnhancedCall \/ AnalyzeTrainer

SpecEngine == InitEngine /\ [][NextEngine]_vars

\* the analysis request issued twice in a row with the same arguments
InitRepeat ==
    /\ feedbacks \in SeqsUpTo(Records(TrainingIds, RatingValues, {FALSE}), MaxRecords)
    /\ api_key \in BOOLEAN
    /\ InitRequest

NextRepeat == AnalyzeStart \/ QualitativeCall \/ EnhancedCall \/ AnalyzeAgain

SpecRepeat == InitRepeat /\ [][NextRepeat]_vars

\* trainer analysis over records of several sessions
KpiSessions == {"S1", "S2"}

\* 9 stands for a stored value far outside 1..5
KpiRatingValues == {1, 5, 9}

InitKpi ==
    /\ feedbacks \in
           SeqsUpTo(Records(KpiSessions, KpiRatingValues, {FALSE}), MaxKpiRecords)
    /\ api_key = TRUE
    /\ InitRequest

NextKpi == AnalyzeTrainer

SpecKpi == InitKpi /\ [][NextKpi]_vars

\* the scenario of ten individual ratings, spread over five records that rate
\* both metrics, in one session or in three
ScenarioRatings == <<5, 5, 5, 5, 1, 1, 1, 2, 2, 2>>

ScenarioSessions ==
    {<<"S1", "S1", "S1", "S1", "S1">>, <<"S1", "S1", "S2", "S2", "S3">>}

Arrangements ==
    {f \in [DOMAIN ScenarioRatings -> {1, 2, 5}] :
        \A v \in {1, 2, 5} : CountOf(f, v) = CountOf(ScenarioRatings, v)}

ScenarioFeedbacks(f, ids) ==
    [i \in DOMAIN ids |->
        [training_id      |-> ids[i],
         has_quantitative |-> TRUE,
         quantitative     |-> [m \in Metrics |->
                                  IF m = "content_quality" THEN f[2 * i - 1]
                                                           ELSE f[2 * i]],
         has_text         |-> FALSE]]

InitRates ==
    /\ \E f \in Arrangements, ids \in ScenarioSessions :
          feedbacks = ScenarioFeedbacks(f, ids)
    /\ api_key = TRUE
    /\ InitRequest

SpecRates == InitRates /\ [][NextKpi]_vars

\* trainer analysis over a run of sessions, one record per session, listed in
\* ascending or in descending order of session id
TrendRatingValues == {0, 1, 3, 5}

TrendQuantitatives ==
    {[m \in {"content_quality"} |-> v] : v \in TrendRatingValues}
    \cup {[content_quality |-> 5, clarity |-> 1]}

TrendFeedbacks(qs, descending) ==
    [i \in DOMAIN qs |->
        [training_id      |-> SessionOrder[IF descending THEN Len(qs) + 1 - i ELSE i],
         has_quantitative |-> TRUE,
         quantitative     |-> qs[i],
         has_text         |-> FALSE]]

InitTrend ==
    /\ \E qs \in SeqsUpTo(TrendQuantitatives, MaxSessions), descending \in BOOLEAN :
          feedbacks = TrendFeedbacks(qs, descending)
    /\ api_key = TRUE
    /\ InitRequest

SpecTrend == InitTrend /\ [][NextKpi]_vars

\* the analysis request over records of one session that all rate content
\* quality 5 and clarity 1
PolarRecords ==
    {[training_id |-> "S1", has_quantitative |-> TRUE,
      quantitative |-> [content_quality |-> 5, clarity |-> 1], has_text |-> x] :
         x \in BOOLEAN}

InitPolar ==
    /\ feedbacks \in SeqsUpTo(PolarRecords, MaxPolarRecords)
    /\ api_key \in BOOLEAN
    /\ InitRequest

SpecPolar == InitPolar /\ [][Next]_vars

\* the analysis request over in-range ratings of one or both metrics, with a
\* service that can be reached
FallbackRatingValues == {1, 2, 4, 5}

FallbackRecords ==
    {[training_id |-> "S1", has_quantitative |-> TRUE, quantitative |-> q,
      has_text |-> FALSE] :
         q \in [Metrics -> FallbackRatingValues]
               \cup [{"content_quality"} -> FallbackRatingValues]}

InitFallback ==
    /\ feedbacks \in SeqsUpTo(FallbackRecords, MaxFallbackRecords)
    /\ api_key = TRUE
    /\ InitRequest

SpecFallback == InitFallback /\ [][Next]_vars

\* trainer analysis and calculate_kpis over records that may carry a rating
\* that is not a number
KpiErrorValues == {1, 5, NonNumeric}

InitKpiError ==
    /\ feedbacks \in
           SeqsUpTo(Records(KpiSessions, KpiErrorValues, {FALSE}), MaxKpiRecords)
    /\ api_key = TRUE
    /\ InitRequest

NextKpiError == AnalyzeTrainer \/ CalculateKpisCall

SpecKpiError == InitKpiError /\ [][NextKpiError]_vars

\* trainer analysis over sessions of one record each, which rates the five
\* questions of the form or one of them
FormMetrics ==
    {"content_quality", "trainer_effectiveness", "clarity_of_explanation",
     "engagement_interaction", "practical_relevance"}

\* session averages 1.0, 1.2, 3.0 and 3.2
BoundaryQuantitatives ==
    {[m \in {"content_quality"} |-> v] : v \in {1, 3}}
    \cup {[m \in FormMetrics |-> IF m = "practical_relevance" THEN v + 1 ELSE v] :
             v \in {1, 3}}

InitBoundary ==
    /\ \E qs \in SeqsUpTo(BoundaryQuantitatives, MaxBoundarySessions) :
          feedbacks = TrendFeedbacks(qs, FALSE)
    /\ api_key = TRUE
    /\ InitRequest

SpecBoundary == InitBoundary /\ [][NextKpi]_vars

----------------------------------------------------------------------------
(* Claims *)

\* C1: when the enhanced service call fails by raising (timeout, network
\* error, no client), the request still returns a report whose enhanced
\* analysis has parsing_error = TRUE and whose sentiment is the one the
\* quantitative thresholds give; no exception reaches the caller.
C1_FailureYieldsFallbackReport ==
    (pc = "done" /\ Failed(calls[2])) =>
        /\ report.status = "ok"
        /\ report.enhanced_analysis.parsing_error
        /\ report.sentiment = Sentiment(quantitative_insights)

\* C2: for every record list the request returns a report and never raises,
\* every division being guarded; stated for the requests that the service
\* answered with a JSON object, so that only the records decide.
C2_ReportForEveryInput ==
    (pc = "done" /\ calls[2] = "json_object") => report.status = "ok"

\* the request took the fallback path and no service reply entered the report
FallbackPath(cs) == Len(cs) = 2 /\ cs[1] # "reply" /\ EnhancedIsNone(cs[2])

Offline(cs) == Len(cs) = 2 /\ \A i \in DOMAIN cs : Failed(cs[i])

ValidCount(fbs, m) ==
    Cardinality({i \in DOMAIN fbs :
        /\ fbs[i].has_quantitative
        /\ m \in DOMAIN fbs[i].quantitative
        /\ fbs[i].quantitative[m] \in 1..5})

\* C4: for every metric of quantitative_insights, count is the number of
\* records with a rating in 1..5 for it; values outside 1..5 enter neither
\* count nor min nor max.
C4_CountIsValidCount ==
    pc # "idle" =>
        \A m \in DOMAIN quantitative_insights :
            /\ quantitative_insights[m].count = ValidCount(feedbacks, m)
            /\ quantitative_insights[m].min \in 1..5
            /\ quantitative_insights[m].max \in 1..5

\* C5: every metric that some record rates with a value in 1..5 has an entry
\* in quantitative_insights, whichever record it is.
C5_EveryRatedMetricHasEntry ==
    pc # "idle" =>
        \A m \in Metrics :
            ValidCount(feedbacks, m) > 0 => m \in DOMAIN quantitative_insights

Permuted(fbs, p) == [i \in DOMAIN fbs |-> fbs[p[i]]]

\* C6: quantitative_insights is the same for every order of the records.
C6_OrderIrrelevant ==
    pc # "idle" =>
        \A p \in Permutations(DOMAIN feedbacks) :
            QuantitativeInsights(QuantitativeData(Permuted(feedbacks, p)))
                = quantitative_insights

\* what calculate_kpis returns for no records at all
EmptyKpis ==
    [avg_rating_last_3_sessions   |-> 0,
     consistency_score            |-> 1000,
     improvement_trend            |-> "Insufficient Data",
     satisfaction_rate            |-> 0,
     overall_avg_rating           |-> 0,
     best_session_rating          |-> 0,
     worst_session_rating         |-> 0,
     rating_improvement_rate      |-> 0,
     excellence_rate              |-> 0,
     poor_rating_rate             |-> 0,
     target_achievement_rate      |-> 0,
     monthly_growth_rate          |-> 0,
     avg_participants_per_session |-> 0,
     performance_stability        |-> 1000]

NumericKpis ==
    {"avg_rating_last_3_sessions", "consistency_score", "satisfaction_rate",
     "overall_avg_rating", "best_session_rating", "worst_session_rating",
     "rating_improvement_rate", "excellence_rate", "poor_rating_rate",
     "target_achievement_rate", "monthly_growth_rate",
     "avg_participants_per_session", "performance_stability"}

\* the fallback ran inside a request that returned
FallbackReported == report.status = "ok" /\ EnhancedIsNone(calls[2])

RatedSessionCount == Len(SessionRatings(feedbacks))

C9_VarianceAroundSessionMean ==
    (analysis.status = "ok" /\ RatedSessionCount >= 2) =>
        LET rs == Averages(SessionRatings(feedbacks))
        IN  analysis.kpis.consistency_score
                = Round(ConsistencyScore(rs, Mean(rs)), 10)

ScenarioRan ==
    /\ analysis.status = "ok"
    /\ \A v \in {1, 2, 5} :
          CountOf(AllRatings(feedbacks), v) = CountOf(ScenarioRatings, v)
    /\ Len(AllRatings(feedbacks)) = Len(ScenarioRatings)

\* C10 as stated: for the individual ratings [5,5,5,5,1,1,1,2,2,2] the rates
\* are satisfaction 40.0, poor 50.0, excellence 0.0.
C10_ScenarioRatesAsStated ==
    ScenarioRan =>
        /\ analysis.kpis.satisfaction_rate = 400
        /\ analysis.kpis.poor_rating_rate = 500
        /\ analysis.kpis.excellence_rate = 0

\* C10 amended: for the individual ratings [5,5,5,5,1,1,1,2,2,2], however
\* they are spread over records and sessions, satisfaction_rate = 40.0,
\* poor_rating_rate = 60.0 and excellence_rate = 40.0.
C10_ScenarioRates ==
    ScenarioRan =>
        /\ analysis.kpis.satisfaction_rate = 400
        /\ analysis.kpis.poor_rating_rate = 600
        /\ analysis.kpis.excellence_rate = 400

C10_Witness == ScenarioRan /\ Cardinality(SessionIdsOf(feedbacks)) = 3

\* all rated sessions have the same average
EqualAverages ==
    LET rs == Averages(SessionRatings(feedbacks))
    IN  \A i, j \in DOMAIN rs : rs[i] = rs[j]

\* C11: when the records form 5 sessions (or more) whose session averages
\* are all equal, improvement_trend is the "Stable" label and
\* performance_stability is 100.0.
C11_EqualSessionsStable ==
    (analysis.status = "ok" /\ RatedSessionCount >= 5 /\ EqualAverages) =>
        /\ analysis.kpis.improvement_trend = "Stable"
        /\ analysis.kpis.performance_stability = 1000

C11_Witness ==
    /\ analysis.status = "ok"
    /\ RatedSessionCount = 5
    /\ EqualAverages
    /\ \E i, j \in DOMAIN feedbacks :
          /\ DOMAIN feedbacks[i].quantitative = Metrics
          /\ DOMAIN feedbacks[j].quantitative = {"content_quality"}

\* three records of one session, each rating content quality 5 and clarity 1
ContradictoryScenario ==
    /\ Len(feedbacks) = 3
    /\ \A i \in DOMAIN feedbacks :
          /\ feedbacks[i].training_id = training_id
          /\ feedbacks[i].quantitative = [content_quality |-> 5, clarity |-> 1]

\* C12: for 3 records of one session each rating {quality: 5, clarity: 1},
\* the analysis flags the quantitative polarization signal and the report
\* carries a polarization result with level "high" and score 100.
C12_ContradictoryRecordsHigh ==
    (FallbackReported /\ ContradictoryScenario) =>
        /\ report.enhanced_analysis.polarization_detected
        /\ "polarization" \in DOMAIN report
        /\ report.polarization.level = "high"
        /\ report.polarization.score = 100

\* the ratings the records give a metric, counted by value
RatingCount(m, V) ==
    Cardinality({i \in DOMAIN feedbacks :
        /\ feedbacks[i].has_quantitative
        /\ m \in DOMAIN feedbacks[i].quantitative
        /\ feedbacks[i].quantitative[m] \in V})

\* the mean over the metrics of quantitative_insights of a per-metric number
MeanOverMetrics(f) == IF DOMAIN f = {} THEN RZero ELSE Mean(DictValues(f))

StatedPoorPct ==
    MeanOverMetrics([m \in DOMAIN quantitative_insights |->
        Rat(RatingCount(m, {1, 2}) * 100, quantitative_insights[m].count)])

StatedExcellentPct ==
    MeanOverMetrics([m \in DOMAIN quantitative_insights |->
        Rat(RatingCount(m, {5}) * 100, quantitative_insights[m].count)])

StatedVariance ==
    MeanOverMetrics([m \in DOMAIN quantitative_insights |->
        RInt(quantitative_insights[m].max - quantitative_insights[m].min)])

StatedOverallAverage ==
    MeanOverMetrics([m \in DOMAIN quantitative_insights |->
        Rat(quantitative_insights[m].average, 100)])

StatedPolarization ==
    /\ DOMAIN quantitative_insights # {}
    /\ \/ RLt(RInt(3), StatedVariance)
       \/ RLt(RInt(20), StatedPoorPct) /\ RLt(RInt(20), StatedExcellentPct)

\* C13: in the fallback, polarization_detected is true exactly when the
\* average of max - min over the metrics exceeds 3, or the average share of
\* ratings 1 and 2 and the average share of ratings 5 both exceed 20 percent;
\* with no metrics it is false.
C13_PolarizationFlag ==
    FallbackReported =>
        report.enhanced_analysis.polarization_detected = StatedPolarization

\* flagged by the two shares alone, over both metrics
C13_Witness ==
    /\ FallbackReported
    /\ report.enhanced_analysis.polarization_detected
    /\ DOMAIN quantitative_insights = Metrics
    /\ RLe(StatedVariance, RInt(3))

StatedRiskLevel ==
    IF RLt(StatedOverallAverage, Rat(5, 2)) \/ RLt(RInt(40), StatedPoorPct)
    THEN "high"
    ELSE IF RLt(StatedOverallAverage, Rat(7, 2)) \/ RLt(RInt(20), StatedPoorPct)
         THEN "medium"
         ELSE "low"

\* C14: in the fallback, risk_level is high when the overall average is
\* below 2.5 or poor% above 40, otherwise medium when the average is below
\* 3.5 or poor% above 20, otherwise low; it is always one of the three.
C14_RiskLevel ==
    FallbackReported =>
        /\ report.enhanced_analysis.risk_level = StatedRiskLevel
        /\ report.risk_assessment = StatedRiskLevel
        /\ report.risk_assessment \in {"high", "medium", "low"}

\* medium on the share of poor ratings alone
C14_Witness ==
    /\ FallbackReported
    /\ report.risk_assessment = "medium"
    /\ RLe(Rat(7, 2), StatedOverallAverage)

\* C15: in the fallback, sentiment is mixed when polarization is flagged;
\* otherwise it is negative exactly when risk_level is high, neutral exactly
\* when it is medium and positive exactly when it is low.
C15_SentimentFollowsRisk ==
    FallbackReported =>
        IF report.enhanced_analysis.polarization_detected
        THEN report.sentiment = "mixed"
        ELSE /\ report.sentiment = "negative" <=> report.risk_assessment = "high"
             /\ report.sentiment = "neutral" <=> report.risk_assessment = "medium"
             /\ report.sentiment = "positive" <=> report.risk_assessment = "low"

\* the records with every rating outside 1..5 taken out of 'quantitative'
ValidOnly(fbs) ==
    [i \in DOMAIN fbs |->
        LET q == fbs[i].quantitative
        IN  [fbs[i] EXCEPT !.quantitative =
                [m \in {x \in DOMAIN q : q[x] \in 1..5} |-> q[m]]]]

\* C16: ratings outside 1..5 are excluded from every KPI aggregate: the
\* session averages and satisfaction_rate, excellence_rate, poor_rating_rate
\* and overall_avg_rating are those of the records without such values.
C16_InvalidExcluded ==
    analysis.status = "ok" =>
        LET valid == ValidOnly(feedbacks)
            rs    == Averages(SessionRatings(valid))
            all   == AllRatings(valid)
        IN  /\ analysis.kpis.best_session_rating = Round(BestSessionRating(rs), 100)
            /\ analysis.kpis.worst_session_rating = Round(WorstSessionRating(rs), 100)
            /\ analysis.kpis.satisfaction_rate = Round(SatisfactionRate(all), 10)
            /\ analysis.kpis.excellence_rate = Round(ExcellenceRate(all), 10)
            /\ analysis.kpis.poor_rating_rate = Round(PoorRate(all), 10)
            /\ analysis.kpis.overall_avg_rating = Round(OverallAvgRating(all), 100)

\* C17: calculate_kpis never raises; when its body fails (a rating that is
\* not a number) it returns a set in which every numeric indicator is 0 and
\* improvement_trend is the error label.
C17_NeverRaisesErrorZeros ==
    kpis.status # "none" =>
        /\ kpis.status = "returned"
        /\ HasNonNumeric(feedbacks) =>
               /\ kpis.value.improvement_trend = "Error"
               /\ \A k \in DOMAIN kpis.value \ {"improvement_trend"} :
                      kpis.value[k] = 0

C17_Witness ==
    /\ kpis.status = "returned"
    /\ HasNonNumeric(feedbacks)
    /\ Cardinality(SessionIdsOf(feedbacks)) = 2

KpiNames == NumericKpis \cup {"improvement_trend"}

\* C18: the set calculate_kpis returns has the same indicator names for every
\* input, on the normal path and on the error path alike.
C18_FixedIndicatorNames ==
    kpis.status = "returned" => DOMAIN kpis.value = KpiNames

\* C19: avg_participants_per_session is the number of records divided by
\* the number of distinct training_id values among them (0 without records),
\* also when some session has no quantitative ratings at all.
C19_ParticipantsPerDistinctSession ==
    analysis.status = "ok" =>
        analysis.kpis.avg_participants_per_session =
            IF Len(feedbacks) = 0 THEN 0
            ELSE Round(Rat(Len(feedbacks), Cardinality(SessionIdsOf(feedbacks))), 10)

\* b / a * 100 - 100 in tenths, 0 unless a is positive
StatedChange(a, b) ==
    IF RLt(RZero, a)
    THEN Round(RSub(Rat(b[1] * a[2] * 100, b[2] * a[1]), RInt(100)), 10)
    ELSE 0

\* the change from the first Len \div 2 session averages to the others
StatedHalvesChange(rs) ==
    IF Len(rs) < 2 THEN 0
    ELSE LET h == Len(rs) \div 2
         IN  StatedChange(Mean([i \in 1..h |-> rs[i]]),
                          Mean([i \in 1..(Len(rs) - h) |-> rs[h + i]]))

\* the change from the first two to the last two of the last five averages
StatedLastFiveChange(rs) ==
    IF Len(rs) < 5 THEN 0
    ELSE LET n == Len(rs)
         IN  StatedChange(RDivInt(RAdd(rs[n - 4], rs[n - 3]), 2),
                          RDivInt(RAdd(rs[n - 1], rs[n]), 2))

\* C20 as stated: rating_improvement_rate and monthly_growth_rate are both
\* the percentage change from the mean of the first half of the session
\* averages to the mean of the second half (0 with fewer than 2 sessions or
\* a first-half mean of 0), so the two agree on every input.
C20_BothOverHalves ==
    analysis.status = "ok" =>
        LET rs == Averages(SessionRatings(feedbacks))
        IN  /\ analysis.kpis.monthly_growth_rate = StatedHalvesChange(rs)
            /\ analysis.kpis.rating_improvement_rate = StatedHalvesChange(rs)
            /\ analysis.kpis.rating_improvement_rate
                   = analysis.kpis.monthly_growth_rate

\* C20 amended: monthly_growth_rate is the percentage change from the mean
\* of the first half of the session averages to the mean of the rest (0 with
\* fewer than 2 sessions); rating_improvement_rate is the percentage change
\* from the mean of the first two to the mean of the last two of the five
\* most recent session averages (0 with fewer than 5 sessions); each is 0
\* when its first mean is not positive.
C20_GrowthAndImprovement ==
    analysis.status = "ok" =>
        LET rs == Averages(SessionRatings(feedbacks))
        IN  /\ analysis.kpis.monthly_growth_rate = StatedHalvesChange(rs)
            /\ analysis.kpis.rating_improvement_rate = StatedLastFiveChange(rs)

\* five sessions on which the two indicators are both non-zero and differ
C20_Witness ==
    /\ analysis.status = "ok"
    /\ RatedSessionCount = 5
    /\ analysis.kpis.monthly_growth_rate # 0
    /\ analysis.kpis.rating_improvement_rate # 0
    /\ analysis.kpis.rating_improvement_rate # analysis.kpis.monthly_growth_rate

\* the label the thresholds give on exact numbers
StatedTrend(rs) ==
    IF Len(rs) < 5 THEN "Insufficient Data"
    ELSE LET n     == Len(rs)
             delta == RSub(RDivInt(RAdd(rs[n - 1], rs[n]), 2),
                           RDivInt(RAdd(rs[n - 4], rs[n - 3]), 2))
         IN  IF RLt(Rat(1, 5), delta) THEN "Improving"
             ELSE IF RLt(delta, Rat(-1, 5)) THEN "Declining"
             ELSE "Stable"

\* C21: improvement_trend is the "Insufficient Data" label with fewer than 5
\* sessions; with 5 or more, delta being mean(last 2) - mean(first 2) of the
\* 5 last sessions in ascending session_id order, it is "Improving" iff
\* delta > 0.2, "Declining" iff delta < -0.2 and "Stable" otherwise, so a
\* delta of exactly 0.2 or -0.2 gives "Stable".
C21_TrendThresholds ==
    analysis.status = "ok" =>
        analysis.kpis.improvement_trend
            = StatedTrend(Averages(SessionRatings(feedbacks)))

\* the sum and the number of all the ratings of a session
FlatMean(id) ==
    LET all == AllRatings(SessionFeedbacks(feedbacks, id))
    IN  Rat(SumSeq(all), Len(all))

\* the sessions with a rating, by ascending session id, with their flat means
StatedSessions ==
    LET ids == SortIds(RatedSessions(feedbacks))
    IN  [i \in 1..Len(ids) |-> [session_id |-> ids[i], average_rating |-> FlatMean(ids[i])]]

C23_NoCallAfterFailure ==
    \A i \in 1..Len(calls) : calls[i] = "raise" => i = Len(calls)

\* C24: every call to the text-insight service is issued with a bounded
\* timeout, so a service that never answers cannot keep the request from
\* returning: the request is never left waiting inside a call.
C24_RequestNeverBlocked ==
    pc # "blocked"

\* floor(r) of a rational that is not negative
Floor(r) == r[1] \div r[2]

\* C25: when polarization is flagged, the solution set carries
\* dissatisfied = floor(total_participants * poor% / 100) and
\* satisfied = floor(total_participants * excellent% / 100), on the request's
\* own statistics; both are at least 0 and their sum is at most
\* total_participants, so the neutral remainder is never negative.
C25_FlooredCounts ==
    (FallbackReported /\ report.enhanced_analysis.polarization_detected) =>
        LET ps    == report.enhanced_analysis.polarization_solutions
            total == Len(feedbacks)
        IN  /\ ps.dissatisfied_count
                   = Floor(RDivInt(RMul(RInt(total), StatedPoorPct), 100))
            /\ ps.satisfied_count
                   = Floor(RDivInt(RMul(RInt(total), StatedExcellentPct), 100))
            /\ ps.dissatisfied_count >= 0
            /\ ps.satisfied_count >= 0
            /\ ps.dissatisfied_count + ps.satisfied_count <= total

\* what a request returns when it runs alone on the arguments and with the
\* service outcomes of thread t
AloneReport(t) ==
    LET fbs == threads[t].fbs
    IN  Report(threads[t].calls[2], training_id, fbs,
               QuantitativeInsights(QuantitativeData(fbs)),
               QualitativeAnalysis(threads[t].calls[1], training_id, fbs, 0))

\* C26: analysis requests running concurrently share no mutable state: under
\* every interleaving each request returns what it returns when run alone,
\* and the lazily created global analyzer is constructed at most once.
C26_IsolatedRequests ==
    /\ \A t \in DOMAIN threads :
          threads[t].pc = "done" => threads[t].report = AloneReport(t)
    /\ constructions <= 1

\* call i of the log carried a token of an earlier successful login that was
\* not logged out in between and was not past its expiry at the call
ValidSession(i) ==
    \E j \in 1..(i - 1) :
        /\ admin_log[j].op = "login"
        /\ admin_log[j].success
        /\ admin_log[j].token = admin_log[i].token
        /\ admin_log[i].at <= admin_log[j].at + SessionHours
        /\ \A k \in (j + 1)..(i - 1) :
              ~(admin_log[k].op = "logout" /\ admin_log[k].token = admin_log[i].token)

\* C27: /admin/get_feedback returns feedback data only to a request whose
\* Flask session holds an admin token that verify_admin_session accepts.
C27_FeedbackOnlyToAdmin ==
    \A i \in DOMAIN admin_log :
        (admin_log[i].op = "admin_get_feedback" /\ admin_log[i].success)
            => ValidSession(i)

\* the step is the call `op` on `token`
AdminStep(op, token) ==
    /\ Len(admin_log') = Len(admin_log) + 1
    /\ admin_log'[Len(admin_log')].op = op
    /\ admin_log'[Len(admin_log')].token = token

\* C28: verify_admin_session(token) succeeds only for a token of an earlier
\* successful login_admin that has not been logged out since and is not past
\* its 24-hour expiry; a failed login leaves ACTIVE_SESSIONS unchanged; the
\* verification of an expired token removes it.
C28_SessionLifecycle ==
    /\ [](\A i \in DOMAIN admin_log :
             (admin_log[i].op = "verify" /\ admin_log[i].success)
                 => ValidSession(i))
    /\ [][(AdminStep("login", 0) /\ ~admin_log'[Len(admin_log')].success)
             => ACTIVE_SESSIONS' = ACTIVE_SESSIONS]_vars
    /\ [][\A t \in Tokens :
             (/\ AdminStep("verify", t)
              /\ t \in DOMAIN ACTIVE_SESSIONS
              /\ utcnow > ACTIVE_SESSIONS[t].expires_at)
                 => t \notin DOMAIN ACTIVE_SESSIONS']_vars

\* a login failed, a verification succeeded, and a later verification of the
\* same token failed on its expiry
C28_Witness ==
    \E i, j, k \in DOMAIN admin_log :
        /\ admin_log[i].op = "login" /\ ~admin_log[i].success
        /\ admin_log[j].op = "verify" /\ admin_log[j].success
        /\ admin_log[k].op = "verify" /\ ~admin_log[k].success
        /\ admin_log[k].token = admin_log[j].token
        /\ j < k
        /\ \A l \in DOMAIN admin_log : admin_log[l].op # "logout"

\* the documents of the store for a pair
Stored(tid, name) ==
    Cardinality({i \in DOMAIN collection :
        collection[i].training_id = tid /\ collection[i].student_name = name})

\* C29: under every sequence and interleaving of insert_feedback calls the
\* store holds at most one record per (training_id, student_name) pair with
\* both fields non-empty, and a rejected duplicate leaves the store unchanged.
C29_NoDuplicates ==
    /\ [](\A i \in DOMAIN collection :
             (collection[i].training_id # "" /\ collection[i].student_name # "")
                 => Stored(collection[i].training_id,
                           collection[i].student_name) <= 1)
    /\ [][\A t \in DOMAIN submissions :
             (submissions[t].pc = "check" /\ submissions'[t].pc = "done")
                 => collection' = collection]_vars

\* the questions of stored form i respect the limits and carry the two types
WithinLimits(i) ==
    /\ forms_collection[i].questions["choice"] <= MaxChoice
    /\ forms_collection[i].questions["subjective"] <= MaxSubjective
    /\ LenQuestions(forms_collection[i].questions) <= MaxQuestions
    /\ \A qtype \in RawTypes \ {"choice", "subjective"} :
           forms_collection[i].questions[qtype] = 0

\* C30: after every sequence of create_feedback_form and update_feedback_form
\* calls each stored form has at most 10 choice questions, at most 10
\* subjective ones and at most 20 in all, every stored question is of type
\* 'choice' or 'subjective', and a call rejected for the limits leaves the
\* stored forms as they were.
C30_FormLimits ==
    /\ [](\A i \in DOMAIN forms_collection : WithinLimits(i))
    /\ [][(db_result'.op # "none" /\ db_result'.message = "limits")
             => forms_collection' = forms_collection]_vars

====
